---- MODULE Spec2Model ----
(***************************************************************************)
(* The track-metadata tools of the Spotify MCP server (read.ts): get_track *)
(* and get_tracks.  One request at a time is dispatched by the host,       *)
(* validated against the tool's zod schema, handed to the handler, which   *)
(* makes its remote call (the single suspend point) and renders the result *)
(* as text.                                                                *)
(*                                                                         *)
(* A JavaScript string is modelled as a sequence of tokens whose           *)
(* concatenation is the string.  The literal parts of the template strings *)
(* are cut at the boundaries of the markers a reader of the text looks for *)
(* ("## ", "[Invalid ID]: ", "not found", a line feed, every digit), and   *)
(* identifiers are sequences over a two-letter alphabet, so that one       *)
(* identifier can be empty or a prefix of another.                         *)
(***************************************************************************)
EXTENDS Integers, Sequences, FiniteSets, TLC

VARIABLES
    pc,        \* "idle" | "handler" | "await" | "done": position of the invocation
    request,   \* [tool, args]: the tool call being served
    calls,     \* remote calls made by this invocation, in order
    result,    \* what the remote call settled with (the handler's track / tracks)
    response   \* what the host gets back

vars == <<pc, request, calls, result, response>>

(***************************************************************************)
(* Bounds of the model.                                                    *)
(***************************************************************************)
\* Lists of identifiers up to this length are enumerated exhaustively.
MaxLen == 2

\* Durations up to this many whole seconds are formatted.
MaxSeconds == 600

\* Number of invocations that run at the same time.
MaxInvocations == 2

\* Pages of up to this many items are listed.
MaxPage == 3

\* Listings are requested at offsets up to this one.
MaxOffset == 10

\* z.array(z.string()).max(50)
MaxTrackIds == 50

\* expect(text.length).toBeGreaterThan(10)
MinDescriptiveLength == 10

(***************************************************************************)
(* Text.                                                                   *)
(***************************************************************************)
LF == "\n"

Digit(d) == CASE d = 0 -> "0" [] d = 1 -> "1" [] d = 2 -> "2" [] d = 3 -> "3"
              [] d = 4 -> "4" [] d = 5 -> "5" [] d = 6 -> "6" [] d = 7 -> "7"
              [] d = 8 -> "8" [] d = 9 -> "9"

DigitTokens == {Digit(d) : d \in 0..9}

\* `${n}` for a non-negative integer n: its decimal digits, one token each.
RECURSIVE Num(_)
Num(n) == IF n < 10 THEN <<Digit(n)>> ELSE Num(n \div 10) \o <<Digit(n % 10)>>

\* parts.join(sep)
RECURSIVE JoinFrom(_, _, _)
JoinFrom(parts, sep, i) ==
    IF i > Len(parts) THEN <<>>
    ELSE IF i = Len(parts) THEN parts[i]
    ELSE parts[i] \o sep \o JoinFrom(parts, sep, i + 1)

Join(parts, sep) == JoinFrom(parts, sep, 1)

\* text.length, in characters
RECURSIVE CharLenFrom(_, _)
CharLenFrom(text, i) ==
    IF i > Len(text) THEN 0 ELSE Len(text[i]) + CharLenFrom(text, i + 1)

CharLen(text) == CharLenFrom(text, 1)

\* text.toLowerCase(), on the literal tokens of the short get_tracks messages
LowerToken(token) ==
    CASE token = "No track" -> "no track"
      [] token = " IDs provided" -> " ids provided"
      [] token = "s found for the provided IDs" -> "s found for the provided ids"
      [] OTHER -> token

ToLowerCase(text) == [i \in 1..Len(text) |-> LowerToken(text[i])]

\* pat occurs in text at token position p
OccursAt(text, pat, p) ==
    /\ p >= 1
    /\ p + Len(pat) - 1 <= Len(text)
    /\ \A k \in 1..Len(pat) : text[p + k - 1] = pat[k]

Occurrences(text, pat) == {p \in 1..(Len(text) + 1) : OccursAt(text, pat, p)}

\* text.includes(pat)
Includes(text, pat) == Occurrences(text, pat) # {}

\* text.startsWith(pat)
StartsWith(text, pat) == OccursAt(text, pat, 1)

SetMin(S) == CHOOSE x \in S : \A y \in S : x <= y

\* text.indexOf(pat), 1-based; 0 when pat does not occur
IndexOf(text, pat) ==
    IF Includes(text, pat) THEN SetMin(Occurrences(text, pat)) ELSE 0

(***************************************************************************)
(* Values of the remote service.                                           *)
(***************************************************************************)
None == <<>>
Some(v) == <<v>>

\* Identifiers a caller may pass: the empty string, "a" and "ab".
TrackIdStrings == {<<>>, <<"a">>, <<"a", "b">>}

NullValue == [kind |-> "null"]
UndefinedValue == [kind |-> "undefined"]
\* A non-null value that is not shaped like a track: it has no `artists`.
MalformedValue == [kind |-> "malformed"]

\* The catalogue entry the service holds under an identifier.
TrackOf(id) ==
    IF id = <<"a">> THEN
        [kind |-> "track", id |-> id, name |-> <<"Cut To The Feeling">>,
         artists |-> <<[name |-> <<"Carly Rae Jepsen">>]>>,
         album |-> [name |-> <<"Cut To The Feeling">>],
         duration_ms |-> 225000, popularity |-> Some(70), explicit |-> FALSE,
         preview_url |-> None, isrc |-> Some(<<"CAUM71600683">>),
         spotify |-> <<"https://open.spotify.com/track/">> \o id]
    ELSE IF id = <<"a", "b">> THEN
        [kind |-> "track", id |-> id, name |-> <<"Mr. Brightside">>,
         artists |-> <<[name |-> <<"The Killers">>], [name |-> <<"Brandon Flowers">>]>>,
         album |-> [name |-> <<"Hot Fuss">>],
         duration_ms |-> 59999, popularity |-> None, explicit |-> TRUE,
         preview_url |-> Some(<<"https://p.scdn.co/mp3-preview/">> \o id),
         isrc |-> None,
         spotify |-> <<"https://open.spotify.com/track/">> \o id]
    ELSE
        [kind |-> "track", id |-> id, name |-> <<"Untitled">>,
         artists |-> <<[name |-> <<"Various Artists">>]>>,
         album |-> [name |-> <<"Untitled">>],
         duration_ms |-> 0, popularity |-> Some(0), explicit |-> FALSE,
         preview_url |-> Some(<<>>), isrc |-> Some(<<>>),
         spotify |-> <<"https://open.spotify.com/track/">> \o id]

Tracks == {TrackOf(id) : id \in TrackIdStrings}

\* What a rejected promise carries: an Error with a message, or any other value.
Thrown == {[isError |-> TRUE, message |-> <<"Bad OAuth request">>],
           [isError |-> FALSE, value |-> <<"ECONNRESET">>]}

\* !v
Falsy(v) == v.kind \in {"null", "undefined"}

IsTrack(v) == v.kind = "track"

(***************************************************************************)
(* utils.ts: formatDuration (M:SS, seconds padded to two digits).          *)
(***************************************************************************)
\* Mutant: the seconds are rounded to the nearest second (`toFixed(0)`).
FormatDurationRounded(ms) ==
    LET minutes == ms \div 60000
        seconds == ((ms % 60000) + 500) \div 1000
    IN  Num(minutes) \o <<":">>
          \o (IF seconds < 10 THEN <<"0">> ELSE <<>>) \o Num(seconds)

FormatDuration(ms) ==
    LET total == ms \div 1000
        minutes == total \div 60
        seconds == total % 60
    IN  Num(minutes) \o <<":">>
          \o (IF seconds < 10 THEN <<"0">> ELSE <<>>) \o Num(seconds)

(***************************************************************************)
(* Results of a try block and of a handler.                                *)
(***************************************************************************)
Return(text) == [ok |-> TRUE, text |-> text]
Throw(error) == [ok |-> FALSE, error |-> error]

\* Reading a property of `undefined`.
TypeError ==
    [isError |-> TRUE,
     message |-> <<"Cannot read properties of undefined (reading 'map')">>]

\* { content: [{ type: 'text', text }] }
TextContent(text) ==
    [kind |-> "content", content |-> <<[type |-> "text", text |-> text]>>]

\* An exception that leaves the handler.
Propagates(error) == [kind |-> "thrown", error |-> error]

\* Mutant: String(error) for every thrown value (an Error prints as
\* `Error: <message>`).
ErrorMessageAlwaysString(error) ==
    IF error.isError THEN <<"Error: ">> \o error.message ELSE error.value

\* error instanceof Error ? error.message : String(error)
ErrorMessage(error) == IF error.isError THEN error.message ELSE error.value

\* `Error retrieving track metadata: ${...}`
ErrorText(error) ==
    <<"Error", " retrieving track metadata: ">> \o ErrorMessage(error)

\* Mutant: the names are joined by a semicolon.
ArtistNamesSemicolon(track) ==
    Join([i \in 1..Len(track.artists) |-> track.artists[i].name], <<"; ">>)

\* track.artists.map((a) => a.name).join(', ')
ArtistNames(track) ==
    Join([i \in 1..Len(track.artists) |-> track.artists[i].name], <<", ">>)

(***************************************************************************)
(* get_track                                                               *)
(***************************************************************************)
\* Mutant: a bare status phrase instead of the template.
NotFoundTextTerse(trackId) == <<"Not Found">>

\* `Track with ID "${trackId}" not found`
NotFoundText(trackId) ==
    <<"Track with ID \"">> \o trackId \o <<"\" ", "not found">>

\* Mutant: the popularity is interpolated as it comes (`${track.popularity}`).
PopularityUnguarded(track) ==
    IF track.popularity = None THEN <<"undefined">> ELSE Num(track.popularity[1])

\* `${track.popularity ?? 0}`
PopularityOrZero(track) ==
    IF track.popularity = None THEN Num(0) ELSE Num(track.popularity[1])

\* Mutant: only a missing isrc is replaced (`??` for `||`).
IsrcTextNullish(track) ==
    IF track.isrc = None THEN <<"N/A">> ELSE track.isrc[1]

\* track.external_ids?.isrc || 'N/A'
IsrcText(track) ==
    IF track.isrc = None \/ track.isrc = Some(<<>>) THEN <<"N/A">> ELSE track.isrc[1]

\* The found rendering of get_track.
TrackMetadataText(track) ==
    LET artists == ArtistNames(track)
        duration == FormatDuration(track.duration_ms)
        explicit == IF track.explicit THEN <<"Yes">> ELSE <<"No">>
        preview == IF track.preview_url = None \/ track.preview_url = Some(<<>>)
                   THEN <<"Not available">> ELSE track.preview_url[1]
        isrc == IsrcText(track)
        popularity == PopularityOrZero(track)
    IN  <<"# Track Metadata", LF, LF>>
          \o <<"**Track**: ", "\"">> \o track.name \o <<"\"", LF>>
          \o <<"**Artists**: ">> \o artists \o <<LF>>
          \o <<"**Album**: ">> \o track.album.name \o <<LF>>
          \o <<"**Duration**: ">> \o duration \o <<LF>>
          \o <<"**Popularity**: ">> \o popularity \o <<"/100", LF>>
          \o <<"**Explicit**: ">> \o explicit \o <<LF>>
          \o <<"**ISRC**: ">> \o isrc \o <<LF>>
          \o <<"**Preview**: ">> \o preview \o <<LF>>
          \o <<"**Spotify URL**: ">> \o track.spotify \o <<LF>>
          \o <<"**ID**: ">> \o track.id

\* Mutant: a missing track is thrown as an error instead of being reported.
GetTrackTryThrowsOnMissing(trackId, settled) ==
    IF settled.kind = "raise" THEN Throw(settled.error)
    ELSE IF Falsy(settled)
         THEN Throw([isError |-> TRUE, message |-> NotFoundText(trackId)])
    ELSE IF settled.kind = "malformed" THEN Throw(TypeError)
    ELSE Return(TrackMetadataText(settled))

\* Mutant: only null counts as a missing track (`track === null` for `!track`).
GetTrackTryNullOnly(trackId, settled) ==
    IF settled.kind = "raise" THEN Throw(settled.error)
    ELSE IF settled.kind = "null" THEN Return(NotFoundText(trackId))
    ELSE IF settled.kind \in {"undefined", "malformed"} THEN Throw(TypeError)
    ELSE Return(TrackMetadataText(settled))

\* The try block of getTrack.handler, given what the remote call settled with.
GetTrackTry(trackId, settled) ==
    IF settled.kind = "raise" THEN Throw(settled.error)
    ELSE IF Falsy(settled) THEN Return(NotFoundText(trackId))
    ELSE IF settled.kind = "malformed" THEN Throw(TypeError)
    ELSE Return(TrackMetadataText(settled))

\* Mutant: no catch clause; a fault of the try block leaves the handler.
GetTrackResultNoCatch(trackId, settled) ==
    LET t == GetTrackTry(trackId, settled)
    IN  IF t.ok THEN TextContent(t.text) ELSE Propagates(t.error)

\* try { ... } catch (error) { ... } of getTrack.handler
GetTrackResult(trackId, settled) ==
    LET t == GetTrackTry(trackId, settled)
    IN  IF t.ok THEN TextContent(t.text) ELSE TextContent(ErrorText(t.error))

(***************************************************************************)
(* get_tracks                                                              *)
(***************************************************************************)
\* trackIds[index] of a JavaScript array (index is 1-based here)
At(trackIds, index) ==
    IF index \in DOMAIN trackIds THEN trackIds[index] ELSE <<"undefined">>

\* `${track.popularity}`
PopularityText(track) ==
    IF track.popularity = None THEN <<"undefined">> ELSE Num(track.popularity[1])

\* Mutant: the block number is the 0-based index (`index` for `index + 1`).
FormatSlotZeroBased(track, index, trackIds) ==
    IF Falsy(track) THEN
        <<LF, "[Invalid ID]: ">> \o At(trackIds, index) \o <<" - Track ", "not found">>
    ELSE
        <<LF, "## ">> \o Num(index - 1) \o <<".", " \"">> \o track.name \o <<"\"", LF>>
          \o <<"**Artists**: ">> \o ArtistNames(track) \o <<LF>>
          \o <<"**Album**: ">> \o track.album.name \o <<LF>>
          \o <<"**Duration**: ">> \o FormatDuration(track.duration_ms) \o <<LF>>
          \o <<"**Popularity**: ">> \o PopularityText(track) \o <<"/100", LF>>
          \o <<"**ID**: ">> \o track.id

\* Mutant: the absent line names the position instead of the identifier.
FormatSlotInvalidByIndex(track, index, trackIds) ==
    IF Falsy(track) THEN
        <<LF, "[Invalid ID]: ">> \o Num(index) \o <<" - Track ", "not found">>
    ELSE
        <<LF, "## ">> \o Num(index) \o <<".", " \"">> \o track.name \o <<"\"", LF>>
          \o <<"**Artists**: ">> \o ArtistNames(track) \o <<LF>>
          \o <<"**Album**: ">> \o track.album.name \o <<LF>>
          \o <<"**Duration**: ">> \o FormatDuration(track.duration_ms) \o <<LF>>
          \o <<"**Popularity**: ">> \o PopularityText(track) \o <<"/100", LF>>
          \o <<"**ID**: ">> \o track.id

\* The callback of tracks.map for a slot that holds a track or a falsy value.
FormatSlot(track, index, trackIds) ==
    IF Falsy(track) THEN
        <<LF, "[Invalid ID]: ">> \o At(trackIds, index) \o <<" - Track ", "not found">>
    ELSE
        <<LF, "## ">> \o Num(index) \o <<".", " \"">> \o track.name \o <<"\"", LF>>
          \o <<"**Artists**: ">> \o ArtistNames(track) \o <<LF>>
          \o <<"**Album**: ">> \o track.album.name \o <<LF>>
          \o <<"**Duration**: ">> \o FormatDuration(track.duration_ms) \o <<LF>>
          \o <<"**Popularity**: ">> \o PopularityText(track) \o <<"/100", LF>>
          \o <<"**ID**: ">> \o track.id

\* Mutant: found blocks are numbered by their rank among the found slots.
FormattedTracksRenumbered(tracks, trackIds) ==
    LET rank(i) == Cardinality({j \in 1..i : ~Falsy(tracks[j])})
    IN  Join([i \in 1..Len(tracks) |->
                 FormatSlot(tracks[i], IF Falsy(tracks[i]) THEN i ELSE rank(i), trackIds)],
             <<LF>>)

\* Mutant: absent slots are filtered out before the blocks are rendered.
FormattedTracksFoundOnly(tracks, trackIds) ==
    LET kept == SelectSeq(tracks, LAMBDA t : ~Falsy(t))
    IN  Join([i \in 1..Len(kept) |-> FormatSlot(kept[i], i, trackIds)], <<LF>>)

\* tracks.map(...).join('\n')
FormattedTracks(tracks, trackIds) ==
    Join([i \in 1..Len(tracks) |-> FormatSlot(tracks[i], i, trackIds)], <<LF>>)

\* Mutant: the count of truthy slots (`filter(Boolean)`).
ValidCountTruthy(tracks) == Cardinality({i \in 1..Len(tracks) : ~Falsy(tracks[i])})

\* tracks.filter((t) => t !== null).length
ValidCount(tracks) == Cardinality({i \in 1..Len(tracks) : tracks[i].kind # "null"})

\* `# Track Metadata (${validCount} of ${trackIds.length} tracks)\n${formattedTracks}`
BatchText(tracks, trackIds) ==
    <<"# Track Metadata", " (">> \o Num(ValidCount(tracks)) \o <<" of ">>
      \o Num(Len(trackIds)) \o <<" tracks)", LF>>
      \o FormattedTracks(tracks, trackIds)

NoTrackIdsText == <<"No track", " IDs provided">>

NoTracksFoundText == <<"No track", "s found for the provided IDs">>

\* Mutant: a failed remote call is salvaged as a batch of absent slots.
GetTracksTrySalvages(trackIds, settled) ==
    IF settled.kind = "raise"
    THEN Return(BatchText([i \in 1..Len(trackIds) |-> NullValue], trackIds))
    ELSE IF Falsy(settled) THEN Return(NoTracksFoundText)
    ELSE IF Len(settled.items) = 0 THEN Return(NoTracksFoundText)
    ELSE IF \E i \in 1..Len(settled.items) : settled.items[i].kind = "malformed"
         THEN Throw(TypeError)
    ELSE Return(BatchText(settled.items, trackIds))

\* Mutant: no `!tracks || tracks.length === 0` guard; reading `length` of a
\* missing array faults and an empty array renders a header without blocks.
GetTracksTryNoGuard(trackIds, settled) ==
    IF settled.kind = "raise" THEN Throw(settled.error)
    ELSE IF Falsy(settled) THEN Throw(TypeError)
    ELSE IF \E i \in 1..Len(settled.items) : settled.items[i].kind = "malformed"
         THEN Throw(TypeError)
    ELSE Return(BatchText(settled.items, trackIds))

\* Mutant: a result without any track counts as no result at all.
GetTracksTryAllAbsentCollapses(trackIds, settled) ==
    IF settled.kind = "raise" THEN Throw(settled.error)
    ELSE IF Falsy(settled) THEN Return(NoTracksFoundText)
    ELSE IF \A i \in 1..Len(settled.items) : Falsy(settled.items[i])
         THEN Return(NoTracksFoundText)
    ELSE IF \E i \in 1..Len(settled.items) : settled.items[i].kind = "malformed"
         THEN Throw(TypeError)
    ELSE Return(BatchText(settled.items, trackIds))

\* The try block of getTracks.handler, given what the remote call settled with.
GetTracksTry(trackIds, settled) ==
    IF settled.kind = "raise" THEN Throw(settled.error)
    ELSE IF Falsy(settled) THEN Return(NoTracksFoundText)
    ELSE IF Len(settled.items) = 0 THEN Return(NoTracksFoundText)
    ELSE IF \E i \in 1..Len(settled.items) : settled.items[i].kind = "malformed"
         THEN Throw(TypeError)
    ELSE Return(BatchText(settled.items, trackIds))

\* try { ... } catch (error) { ... } of getTracks.handler
GetTracksResult(trackIds, settled) ==
    LET t == GetTracksTry(trackIds, settled)
    IN  IF t.ok THEN TextContent(t.text) ELSE TextContent(ErrorText(t.error))

(***************************************************************************)
(* Parameter schemas and the host's dispatch.                              *)
(***************************************************************************)
\* Mutant: the schema rejects the empty string (`z.string().min(1)`).
TrackIdSchemaNonEmpty(trackId) ==
    IF Len(trackId) = 0
    THEN [success |-> FALSE,
          issues |-> <<[code |-> "too_small", minimum |-> 1, path |-> "trackId"]>>]
    ELSE [success |-> TRUE]

\* z.string(): every string is accepted.
TrackIdSchema(trackId) == [success |-> TRUE]

\* Mutant: the limit is exclusive (a list of exactly 50 is rejected).
TrackIdsSchemaExclusive(trackIds) ==
    IF Len(trackIds) >= MaxTrackIds
    THEN [success |-> FALSE,
          issues |-> <<[code |-> "too_big", maximum |-> MaxTrackIds,
                        path |-> "trackIds"]>>]
    ELSE [success |-> TRUE]

\* Mutant: the array schema without .max(50).
TrackIdsSchemaNoMax(trackIds) == [success |-> TRUE]

\* z.array(z.string()).max(50): safeParse of a list of strings.
TrackIdsSchema(trackIds) ==
    IF Len(trackIds) > MaxTrackIds
    THEN [success |-> FALSE,
          issues |-> <<[code |-> "too_big", maximum |-> MaxTrackIds,
                        path |-> "trackIds"]>>]
    ELSE [success |-> TRUE]

\* The host validates the arguments against the tool's schema and calls the
\* handler only when they pass; a failure goes back as a structured error.
SchemaResult(req) ==
    IF req.tool = "get_track" THEN TrackIdSchema(req.args.trackId)
    ELSE TrackIdsSchema(req.args.trackIds)

InvalidParams(issues) == [kind |-> "invalid_params", issues |-> issues]

(***************************************************************************)
(* Requests and remote outcomes enumerated by the model.                   *)
(***************************************************************************)
\* Every list of identifiers of length 0..MaxLen.
ShortLists == UNION {[1..n -> TrackIdStrings] : n \in 0..MaxLen}

\* Array(n).fill(id) at the size limit and one past it.
BoundaryLists == {[i \in 1..n |-> <<"a">>] : n \in {MaxTrackIds, MaxTrackIds + 1}}

Requests ==
    {[tool |-> "get_track", args |-> [trackId |-> id]] : id \in TrackIdStrings}
      \cup {[tool |-> "get_tracks", args |-> [trackIds |-> ids]] :
              ids \in ShortLists \cup BoundaryLists}

Raise(error) == [kind |-> "raise", error |-> error]
Items(items) == [kind |-> "array", items |-> items]

\* What one slot of the returned array may hold.
SlotValues == {NullValue, UndefinedValue, MalformedValue} \cup Tracks

\* spotifyApi.tracks.get(trackId) through handleSpotifyRequest: a track, no
\* track, a value of another shape, or a rejection.
SingleOutcomes(trackId) ==
    SlotValues \cup {Raise(e) : e \in Thrown}

\* spotifyApi.tracks.get(trackIds) through handleSpotifyRequest.  For a short
\* list: any array of 0..n+1 slots, no array, or a rejection.  For a list at
\* the size limit: all slots found, all slots null, or only the first null.
BatchOutcomes(trackIds) ==
    LET n == Len(trackIds)
        arrays ==
            IF n <= MaxLen
            THEN UNION {[1..m -> SlotValues] : m \in 0..(n + 1)}
            ELSE {[i \in 1..n |-> TrackOf(trackIds[i])],
                  [i \in 1..n |-> NullValue],
                  [i \in 1..n |-> IF i = 1 THEN NullValue ELSE TrackOf(trackIds[i])]}
    IN  {Items(a) : a \in arrays}
          \cup {NullValue, UndefinedValue}
          \cup {Raise(e) : e \in Thrown}

(***************************************************************************)
(* The invocation as a state machine.                                      *)
(***************************************************************************)
NoRequest == [tool |-> "none"]
Pending == [kind |-> "pending"]
NoResponse == [kind |-> "none"]

OneCall(trackId) == [op |-> "tracks.get", id |-> trackId]
ManyCall(trackIds) == [op |-> "tracks.get", ids |-> trackIds]

Init ==
    /\ pc = "idle"
    /\ request = NoRequest
    /\ calls = <<>>
    /\ result = Pending
    /\ response = NoResponse

\* The host receives a tool call; arguments that fail the schema are answered
\* with the validation failure and the handler is not run.
Dispatch(req) ==
    /\ pc = "idle"
    /\ request' = req
    /\ LET parsed == SchemaResult(req)
       IN  IF parsed.success
           THEN /\ pc' = "handler"
                /\ response' = response
           ELSE /\ pc' = "done"
                /\ response' = InvalidParams(parsed.issues)
    /\ UNCHANGED <<calls, result>>

\* Mutant: the handler answers an empty trackId itself, without the remote.
GetTrackCallSkipsEmpty ==
    /\ pc = "handler"
    /\ request.tool = "get_track"
    /\ IF Len(request.args.trackId) = 0
       THEN /\ response' = TextContent(NotFoundText(request.args.trackId))
            /\ pc' = "done"
            /\ UNCHANGED <<request, calls, result>>
       ELSE /\ calls' = Append(calls, OneCall(request.args.trackId))
            /\ pc' = "await"
            /\ UNCHANGED <<request, result, response>>

\* getTrack.handler up to its await.
GetTrackCall ==
    /\ pc = "handler"
    /\ request.tool = "get_track"
    /\ calls' = Append(calls, OneCall(request.args.trackId))
    /\ pc' = "await"
    /\ UNCHANGED <<request, result, response>>

\* Mutant: a rejected call is tried again instead of being reported.
GetTrackSettleRetries ==
    /\ pc = "await"
    /\ request.tool = "get_track"
    /\ \E settled \in SingleOutcomes(request.args.trackId) :
          IF settled.kind = "raise"
          THEN /\ pc' = "handler"
               /\ UNCHANGED <<result, response>>
          ELSE /\ result' = settled
               /\ response' = GetTrackResult(request.args.trackId, settled)
               /\ pc' = "done"
    /\ UNCHANGED <<request, calls>>

\* getTrack.handler from the settled remote call to its return.
GetTrackSettle ==
    /\ pc = "await"
    /\ request.tool = "get_track"
    /\ \E settled \in SingleOutcomes(request.args.trackId) :
          /\ result' = settled
          /\ response' = GetTrackResult(request.args.trackId, settled)
    /\ pc' = "done"
    /\ UNCHANGED <<request, calls>>

\* Mutant: no short circuit; the empty list is sent to the remote service.
GetTracksEmptyCallsRemote ==
    /\ pc = "handler"
    /\ request.tool = "get_tracks"
    /\ Len(request.args.trackIds) = 0
    /\ calls' = Append(calls, ManyCall(request.args.trackIds))
    /\ pc' = "await"
    /\ UNCHANGED <<request, result, response>>

\* getTracks.handler with an empty list: returns without a remote call.
GetTracksEmpty ==
    /\ pc = "handler"
    /\ request.tool = "get_tracks"
    /\ Len(request.args.trackIds) = 0
    /\ response' = TextContent(NoTrackIdsText)
    /\ pc' = "done"
    /\ UNCHANGED <<request, calls, result>>

\* Mutant: one remote call per identifier instead of one call for the list.
GetTracksCallPerItem ==
    /\ pc = "handler"
    /\ request.tool = "get_tracks"
    /\ Len(request.args.trackIds) # 0
    /\ calls' = calls \o [i \in 1..Len(request.args.trackIds) |->
                             OneCall(request.args.trackIds[i])]
    /\ pc' = "await"
    /\ UNCHANGED <<request, result, response>>

\* getTracks.handler up to its await.
GetTracksCall ==
    /\ pc = "handler"
    /\ request.tool = "get_tracks"
    /\ Len(request.args.trackIds) # 0
    /\ calls' = Append(calls, ManyCall(request.args.trackIds))
    /\ pc' = "await"
    /\ UNCHANGED <<request, result, response>>

\* getTracks.handler from the settled remote call to its return.
GetTracksSettle ==
    /\ pc = "await"
    /\ request.tool = "get_tracks"
    /\ \E settled \in BatchOutcomes(request.args.trackIds) :
          /\ result' = settled
          /\ response' = GetTracksResult(request.args.trackIds, settled)
    /\ pc' = "done"
    /\ UNCHANGED <<request, calls>>

\* The invocation is over; its state is discarded.
Finish ==
    /\ pc = "done"
    /\ pc' = "idle"
    /\ request' = NoRequest
    /\ calls' = <<>>
    /\ result' = Pending
    /\ response' = NoResponse

Next ==
    \/ \E req \in Requests : Dispatch(req)
    \/ GetTrackCall
    \/ GetTrackSettle
    \/ GetTracksEmpty
    \/ GetTracksCall
    \/ GetTracksSettle
    \/ Finish

Spec == Init /\ [][Next]_vars

(***************************************************************************)
(* formatDuration on its own: one call per behaviour, for every duration   *)
(* of 0..MaxSeconds whole seconds and a remainder of milliseconds.         *)
(***************************************************************************)
DurationInputs == {s * 1000 + r : s \in 0..MaxSeconds, r \in {0, 1, 500, 999}}

DurationCall(ms) == [tool |-> "formatDuration", args |-> [durationMs |-> ms]]

DurationInit ==
    /\ pc = "handler"
    /\ request \in {DurationCall(ms) : ms \in DurationInputs}
    /\ calls = <<>>
    /\ result = Pending
    /\ response = NoResponse

\* const duration = formatDuration(track.duration_ms)
FormatDurationStep ==
    /\ pc = "handler"
    /\ request.tool = "formatDuration"
    /\ response' = [kind |-> "value", value |-> FormatDuration(request.args.durationMs)]
    /\ pc' = "done"
    /\ UNCHANGED <<request, calls, result>>

DurationNext == FormatDurationStep

SpecDuration == DurationInit /\ [][DurationNext]_vars

(***************************************************************************)
(* Concurrent invocations.  The handlers are async functions: an           *)
(* invocation runs to its await, other invocations may run while the       *)
(* remote call is pending, and it resumes when the call settles.  Each     *)
(* variable holds one value per invocation; `calls` is the remote's log.   *)
(***************************************************************************)
Invocations == 1..MaxInvocations

ConcRequests ==
    {[tool |-> "get_track", args |-> [trackId |-> id]] : id \in {<<"a">>, <<"a", "b">>}}
    \cup {[tool |-> "get_tracks", args |-> [trackIds |-> ids]] :
            ids \in {<<>>, <<(<<"a", "b">>), (<<"a">>)>>}}

\* What the remote call of an invocation may settle with.
ConcOutcomes(req) ==
    IF req.tool = "get_track"
    THEN {Raise([isError |-> TRUE, message |-> <<"Bad OAuth request">>]),
          NullValue, TrackOf(req.args.trackId)}
    ELSE {Raise([isError |-> TRUE, message |-> <<"Bad OAuth request">>]),
          NullValue,
          Items([i \in 1..Len(req.args.trackIds) |-> NullValue]),
          Items([i \in 1..Len(req.args.trackIds) |->
                    IF i = 1 THEN TrackOf(req.args.trackIds[i]) ELSE NullValue])}

\* The handler of the request's tool, from the settled call to its return.
HandlerResult(req, settled) ==
    IF req.tool = "get_track"
    THEN GetTrackResult(req.args.trackId, settled)
    ELSE GetTracksResult(req.args.trackIds, settled)

ConcInit ==
    /\ pc = [i \in Invocations |-> "idle"]
    /\ request = [i \in Invocations |-> NoRequest]
    /\ calls = <<>>
    /\ result = [i \in Invocations |-> Pending]
    /\ response = [i \in Invocations |-> NoResponse]

\* tool.handler(args, extra) is called.
ConcInvoke(i) ==
    /\ pc[i] = "idle"
    /\ \E req \in ConcRequests : request' = [request EXCEPT ![i] = req]
    /\ pc' = [pc EXCEPT ![i] = "handler"]
    /\ UNCHANGED <<calls, result, response>>

\* getTracks.handler with an empty list.
ConcEmpty(i) ==
    /\ pc[i] = "handler"
    /\ request[i].tool = "get_tracks"
    /\ Len(request[i].args.trackIds) = 0
    /\ response' = [response EXCEPT ![i] = TextContent(NoTrackIdsText)]
    /\ pc' = [pc EXCEPT ![i] = "done"]
    /\ UNCHANGED <<request, calls, result>>

\* A handler up to its await.
ConcCall(i) ==
    /\ pc[i] = "handler"
    /\ \/ /\ request[i].tool = "get_track"
          /\ calls' = Append(calls, OneCall(request[i].args.trackId))
       \/ /\ request[i].tool = "get_tracks"
          /\ Len(request[i].args.trackIds) # 0
          /\ calls' = Append(calls, ManyCall(request[i].args.trackIds))
    /\ pc' = [pc EXCEPT ![i] = "await"]
    /\ UNCHANGED <<request, result, response>>

\* Mutant: the failure of a call is kept in a variable of the module, and a
\* handler that finds one there reports it as its own.
ConcSettleSharedFailure(i) ==
    /\ pc[i] = "await"
    /\ \E settled \in ConcOutcomes(request[i]) :
          /\ result' = [result EXCEPT ![i] = settled]
          /\ response' =
               [response EXCEPT ![i] =
                  IF \E j \in Invocations : result[j] # Pending /\ result[j].kind = "raise"
                  THEN LET j == CHOOSE j \in Invocations :
                                   result[j] # Pending /\ result[j].kind = "raise"
                       IN  TextContent(ErrorText(result[j].error))
                  ELSE HandlerResult(request[i], settled)]
    /\ pc' = [pc EXCEPT ![i] = "done"]
    /\ UNCHANGED <<request, calls>>

\* A handler from its settled call to its return: it reads its own arguments
\* and the value its own call settled with, all of them local to the call.
ConcSettle(i) ==
    /\ pc[i] = "await"
    /\ \E settled \in ConcOutcomes(request[i]) :
          /\ result' = [result EXCEPT ![i] = settled]
          /\ response' = [response EXCEPT ![i] = HandlerResult(request[i], settled)]
    /\ pc' = [pc EXCEPT ![i] = "done"]
    /\ UNCHANGED <<request, calls>>

ConcNext ==
    \E i \in Invocations :
        \/ ConcInvoke(i)
        \/ ConcEmpty(i)
        \/ ConcCall(i)
        \/ ConcSettle(i)

SpecConcurrent == ConcInit /\ [][ConcNext]_vars

(***************************************************************************)
(* The batch rendering on its own: two results of the remote for the same  *)
(* list of identifiers are rendered side by side.  The records include     *)
(* ones whose album name, a free string of the service, holds line feeds   *)
(* and the text of labels.                                                 *)
(***************************************************************************)
\* The text of a found block from its marker up to the album label.
BlockHead(k, name, artists) ==
    <<"## ">> \o Num(k) \o <<".", " \"">> \o name \o <<"\"", LF>>
      \o <<"**Artists**: ">> \o Join([i \in 1..Len(artists) |-> artists[i].name], <<", ">>)
      \o <<LF>> \o <<"**Album**: ">>

\* The text of a found block after the album name.
BlockTail(duration_ms, popularity, id) ==
    <<LF>> \o <<"**Duration**: ">> \o FormatDuration(duration_ms) \o <<LF>>
      \o <<"**Popularity**: ">>
      \o (IF popularity = None THEN <<"undefined">> ELSE Num(popularity[1]))
      \o <<"/100", LF>> \o <<"**ID**: ">> \o id

\* A record like TrackOf(<<"a">>), with the identifier <<"a", "b">> and an
\* album name that goes on with the rest of a block and the head of a second.
LongAlbumFirst ==
    LET a == TrackOf(<<"a">>)
        b == TrackOf(<<"a", "b">>)
    IN  [a EXCEPT
           !.id = <<"a", "b">>,
           !.popularity = Some(1),
           !.album = [name |-> a.album.name
                                 \o BlockTail(a.duration_ms, a.popularity, a.id)
                                 \o <<LF, LF>> \o BlockHead(2, b.name, b.artists)
                                 \o <<"l">>]]

\* A record like TrackOf(<<"a", "b">>), with an album name that goes on with
\* the rest of LongAlbumFirst's block and the head of a second block.
LongAlbumSecond ==
    LET b == TrackOf(<<"a", "b">>)
        f == LongAlbumFirst
    IN  [b EXCEPT
           !.album = [name |-> <<"l">>
                                 \o BlockTail(f.duration_ms, f.popularity, f.id)
                                 \o <<LF, LF>> \o BlockHead(2, b.name, b.artists)
                                 \o b.album.name]]

RenderList == <<(<<"a">>), (<<"a", "b">>)>>

RenderSlots ==
    {NullValue, UndefinedValue, TrackOf(<<"a">>), TrackOf(<<"a", "b">>),
     LongAlbumFirst, LongAlbumSecond}

RenderInit ==
    /\ pc = "await"
    /\ request = [tool |-> "get_tracks", args |-> [trackIds |-> RenderList]]
    /\ calls = <<ManyCall(RenderList)>>
    /\ result \in {<<Items(a), Items(b)>> :
                     a \in [1..Len(RenderList) -> RenderSlots],
                     b \in [1..Len(RenderList) -> RenderSlots]}
    /\ response = NoResponse

\* getTracks.handler from the settled call to its return, for each result.
RenderStep ==
    /\ pc = "await"
    /\ response' = <<GetTracksResult(request.args.trackIds, result[1]),
                     GetTracksResult(request.args.trackIds, result[2])>>
    /\ pc' = "done"
    /\ UNCHANGED <<request, calls, result>>

RenderNext == RenderStep

SpecRender == RenderInit /\ [][RenderNext]_vars

(***************************************************************************)
(* The tools of readTools when their remote call raises.                   *)
(***************************************************************************)
\* export const readTools = [ ... ]
ReadToolNames ==
    {"searchSpotify", "getNowPlaying", "getMyPlaylists", "getPlaylistTracks",
     "getRecentlyPlayed", "getUsersSavedTracks", "getQueue",
     "getAvailableDevices", "get_track", "get_tracks", "test_audio_features"}

\* The tools whose awaited remote call stands inside a try block.
AwaitsInsideTry ==
    {"searchSpotify", "getNowPlaying", "getQueue", "getAvailableDevices",
     "get_track", "get_tracks", "test_audio_features"}

\* z.enum(['track', 'album', 'artist', 'playlist'])
SearchTypes == {"track", "album", "artist", "playlist"}

FailureRequests ==
    {[tool |-> t, args |-> [type |-> "none"]] : t \in ReadToolNames \ {"searchSpotify"}}
    \cup {[tool |-> "searchSpotify", args |-> [type |-> ty]] : ty \in SearchTypes}

\* What a failing remote call may throw.
FailureThrown ==
    Thrown \cup
    {[isError |-> TRUE, message |-> <<"403", " Forbidden">>],
     [isError |-> TRUE, message |-> <<"Request was ", "Forbidden">>],
     [isError |-> TRUE, message |-> <<"The access token expired">>],
     [isError |-> TRUE, message |-> <<"API rate limit exceeded">>],
     [isError |-> FALSE, value |-> <<"undefined">>]}

\* The text of test_audio_features' catch clause; the pictograph after `# ` is
\* written as a token naming it.
AudioFeaturesErrorText(error) ==
    IF Includes(ErrorMessage(error), <<"403">>)
         \/ Includes(ErrorMessage(error), <<"Forbidden">>)
    THEN <<"# ", "(cross mark)", " Audio Features Access Denied", LF, LF,
           "Your Spotify app does not have access to the Audio Features endpoint.",
           LF, LF, "**Error**: 403 Forbidden", LF, LF,
           "This means your app was likely created after November 27, 2024, or doesn't have extended mode access.",
           LF, LF, "**What this means**:", LF,
           "- You cannot access BPM/tempo data", LF,
           "- You cannot access other audio features (danceability, energy, key, etc.)",
           LF, "- This is a Spotify API restriction for new applications">>
    ELSE <<"# ", "(warning sign)", " Error Testing Audio Features", LF, LF,
           "An error occurred while testing access to the Audio Features endpoint.",
           LF, LF, "**Error**: ">> \o ErrorMessage(error)
           \o <<LF, LF, "This could mean:", LF, "- The track ID is invalid", LF,
                "- There's a network issue", LF, "- The endpoint is not accessible">>

\* The text a tool's catch clause returns.
CatchText(req, error) ==
    CASE req.tool = "searchSpotify" ->
           <<"Error", " searching for ", req.args.type, "s: ">> \o ErrorMessage(error)
      [] req.tool = "getNowPlaying" ->
           <<"Error", " getting current track: ">> \o ErrorMessage(error)
      [] req.tool = "getQueue" ->
           <<"Error", " fetching queue: ">> \o ErrorMessage(error)
      [] req.tool = "getAvailableDevices" ->
           <<"Error", " getting available devices: ">> \o ErrorMessage(error)
      [] req.tool = "test_audio_features" -> AudioFeaturesErrorText(error)
      [] req.tool \in {"get_track", "get_tracks"} -> ErrorText(error)

\* A handler whose remote call raised: its catch clause answers if the await
\* stands inside a try block, otherwise the rejection leaves the handler.
FailureResult(req, error) ==
    IF req.tool \in AwaitsInsideTry
    THEN TextContent(CatchText(req, error))
    ELSE Propagates(error)

FailureInit ==
    /\ pc = "idle"
    /\ request = NoRequest
    /\ calls = <<>>
    /\ result = Pending
    /\ response = NoResponse

\* A handler of readTools up to its await.
FailureInvoke ==
    /\ pc = "idle"
    /\ \E req \in FailureRequests : request' = req
    /\ calls' = Append(calls, [op |-> request'.tool])
    /\ pc' = "await"
    /\ UNCHANGED <<result, response>>

\* The awaited call rejects.
FailureSettle ==
    /\ pc = "await"
    /\ \E error \in FailureThrown :
          /\ result' = Raise(error)
          /\ response' = FailureResult(request, error)
    /\ pc' = "done"
    /\ UNCHANGED <<request, calls>>

FailureNext == FailureInvoke \/ FailureSettle

SpecFailure == FailureInit /\ [][FailureNext]_vars

(***************************************************************************)
(* The paginated listings getPlaylistTracks and getUsersSavedTracks.       *)
(***************************************************************************)
\* An item of a page: its track is a track, null (removed), or something
\* that is not a track (an episode).
EpisodeValue == [kind |-> "episode"]

PageItems ==
    {[track |-> t, added_at |-> <<"2024-01-02T03:04:05Z">>] :
        t \in {TrackOf(<<"a">>), TrackOf(<<"a", "b">>), NullValue, EpisodeValue}}

Pages ==
    UNION {[1..n -> PageItems] : n \in 0..MaxPage}

\* new Date(item.added_at).toLocaleDateString(): the form depends on the
\* locale of the process.
LocaleDates == {<<"1/2/2024">>, <<"02/01/2024">>, <<"2.1.2024">>}

ListingRequests ==
    {[tool |-> t, args |-> [offset |-> o]] :
        t \in {"getPlaylistTracks", "getUsersSavedTracks"},
        o \in {None} \cup {Some(k) : k \in 0..MaxOffset}}

\* const { ..., offset = 0 } = args
OffsetOf(args) == IF args.offset = None THEN 0 ELSE args.offset[1]

\* isTrack(item)
IsTrackItem(track) == track.kind = "track"

\* One line of getPlaylistTracks; i is the 0-based index of the item.
PlaylistLine(item, i, offset) ==
    IF Falsy(item.track) THEN Num(offset + i + 1) \o <<". ", "[Removed track]">>
    ELSE IF IsTrackItem(item.track)
    THEN Num(offset + i + 1) \o <<". ", "\"">> \o item.track.name \o <<"\" by ">>
           \o ArtistNames(item.track) \o <<" (">>
           \o FormatDuration(item.track.duration_ms) \o <<") - ID: ">>
           \o item.track.id
    ELSE Num(offset + i + 1) \o <<". ", "Unknown item">>

\* One line of getUsersSavedTracks; i is the 0-based index of the item.
SavedLine(item, i, offset, addedDate) ==
    IF Falsy(item.track) THEN Num(i + 1) \o <<". ", "[Removed track]">>
    ELSE IF IsTrackItem(item.track)
    THEN Num(offset + i + 1) \o <<". ", "\"">> \o item.track.name \o <<"\" by ">>
           \o ArtistNames(item.track) \o <<" (">>
           \o FormatDuration(item.track.duration_ms) \o <<") - ID: ">>
           \o item.track.id \o <<" - Added: ">> \o addedDate
    ELSE Num(i + 1) \o <<". ", "Unknown item">>

\* `(${offset + 1}-${offset + items.length} of ${total})`
RangeText(offset, page) ==
    <<"(">> \o Num(offset + 1) \o <<"-">> \o Num(offset + Len(page.items))
      \o <<" of ">> \o Num(page.total) \o <<")">>

\* getPlaylistTracks.handler after its await.
PlaylistTracksText(args, page) ==
    IF Len(page.items) = 0 THEN <<"This playlist doesn't have any tracks">>
    ELSE <<"# Tracks in Playlist ">> \o RangeText(OffsetOf(args), page) \o <<LF, LF>>
           \o Join([k \in 1..Len(page.items) |->
                       PlaylistLine(page.items[k], k - 1, OffsetOf(args))], <<LF>>)

\* getUsersSavedTracks.handler after its await.
SavedTracksText(args, page, addedDate) ==
    IF Len(page.items) = 0
    THEN <<"You don't have any saved tracks in your Liked Songs">>
    ELSE <<"# Your Liked Songs ">> \o RangeText(OffsetOf(args), page) \o <<LF, LF>>
           \o Join([k \in 1..Len(page.items) |->
                       SavedLine(page.items[k], k - 1, OffsetOf(args), addedDate)],
                   <<LF>>)

ListingInit ==
    /\ pc = "idle"
    /\ request = NoRequest
    /\ calls = <<>>
    /\ result = Pending
    /\ response = NoResponse

\* A listing handler up to its await.
ListingCall ==
    /\ pc = "idle"
    /\ \E req \in ListingRequests : request' = req
    /\ calls' = Append(calls, [op |-> request'.tool, offset |-> OffsetOf(request'.args)])
    /\ pc' = "await"
    /\ UNCHANGED <<result, response>>

\* The page arrives and is listed.
ListingSettle ==
    /\ pc = "await"
    /\ \E items \in Pages : \E more \in {0, 1} : \E addedDate \in LocaleDates :
          LET page == [items |-> items,
                       total |-> OffsetOf(request.args) + Len(items) + more]
          IN  /\ result' = [kind |-> "page", page |-> page]
              /\ response' =
                   TextContent(IF request.tool = "getPlaylistTracks"
                               THEN PlaylistTracksText(request.args, page)
                               ELSE SavedTracksText(request.args, page, addedDate))
    /\ pc' = "done"
    /\ UNCHANGED <<request, calls>>

ListingNext == ListingCall \/ ListingSettle

SpecListing == ListingInit /\ [][ListingNext]_vars

(***************************************************************************)
(* A reader of the response text, used to state the properties below.      *)
(***************************************************************************)
Done == pc = "done"

\* The handler ran and returned (the arguments passed the schema).
Returned(tool) ==
    /\ pc = "done"
    /\ request.tool = tool
    /\ response.kind # "invalid_params"

IsTextResponse ==
    /\ response.kind = "content"
    /\ Len(response.content) = 1
    /\ response.content[1].type = "text"

ResponseText == response.content[1].text

\* The text opens with the batch header `# Track Metadata (`.
IsBatchRendering(text) == StartsWith(text, <<"# Track Metadata", " (">>)

ErrorPrefix == <<"Error", " retrieving track metadata: ">>

\* The marker `## k.`
FoundMarker(k) == <<"## ">> \o Num(k) \o <<".">>

\* The marker `[Invalid ID]: <id>`
InvalidMarker(id) == <<"[Invalid ID]: ">> \o id

\* The line `[Invalid ID]: <id> - Track not found`
InvalidLine(id) == InvalidMarker(id) \o <<" - Track ", "not found">>

\* Blocks of a batch rendering are separated from the header and from each
\* other by one blank line: a block begins after two consecutive line feeds.
BlockStarts(text) ==
    {p \in 3..(Len(text) + 1) : text[p - 2] = LF /\ text[p - 1] = LF}

NthStart(text, k) ==
    CHOOSE p \in BlockStarts(text) :
        Cardinality({q \in BlockStarts(text) : q <= p}) = k

\* The blocks of a batch rendering, in textual order, without the blank lines.
Blocks(text) ==
    LET n == Cardinality(BlockStarts(text))
    IN  [k \in 1..n |->
            SubSeq(text, NthStart(text, k),
                   IF k < n THEN NthStart(text, k + 1) - 3 ELSE Len(text))]

\* The lines of a text: the tokens between consecutive line feeds.
LineBreaks(text) == {p \in 1..Len(text) : text[p] = LF}

LineCount(text) == Cardinality(LineBreaks(text)) + 1

\* Position of the k-th line feed; 0 for k = 0 and Len(text) + 1 past the last.
NthBreak(text, k) ==
    IF k = 0 THEN 0
    ELSE IF k > Cardinality(LineBreaks(text)) THEN Len(text) + 1
    ELSE CHOOSE p \in LineBreaks(text) :
            Cardinality({q \in LineBreaks(text) : q <= p}) = k

Line(text, k) == SubSeq(text, NthBreak(text, k - 1) + 1, NthBreak(text, k) - 1)

Range(f) == {f[x] : x \in DOMAIN f}

\* The labels of the found rendering of get_track, in their order.
FieldLabels ==
    <<"**Track**: ", "**Artists**: ", "**Album**: ", "**Duration**: ",
      "**Popularity**: ", "**Explicit**: ", "**ISRC**: ", "**Preview**: ",
      "**Spotify URL**: ", "**ID**: ">>

\* The value of the k-th labeled line of a found rendering.
FieldValue(text, k) == Tail(Line(text, k + 2))

IsDigits(text) == Len(text) > 0 /\ \A i \in 1..Len(text) : text[i] \in DigitTokens

\* The number a sequence of digit tokens writes.
DigitValue(token) == CHOOSE d \in 0..9 : Digit(d) = token

RECURSIVE ParseNum(_)
ParseNum(text) ==
    IF Len(text) = 0 THEN 0
    ELSE 10 * ParseNum(SubSeq(text, 1, Len(text) - 1)) + DigitValue(text[Len(text)])

\* digits, colon, two digits
IsDurationForm(text) ==
    /\ Len(text) >= 4
    /\ IsDigits(SubSeq(text, 1, Len(text) - 3))
    /\ text[Len(text) - 2] = ":"
    /\ IsDigits(SubSeq(text, Len(text) - 1, Len(text)))

\* The remote did not accept the identifier of get_track: it answered with no
\* record, or the call raised.
Rejected == Falsy(result) \/ result.kind = "raise"

\* What a result says per input position: found or absent, and for which
\* identifier (the record's for a found slot, the input's for an absent one).
OutcomesOf(items, trackIds) ==
    [i \in 1..Len(items) |->
        IF Falsy(items[i]) THEN [found |-> FALSE, id |-> At(trackIds, i)]
        ELSE [found |-> TRUE, id |-> items[i].id]]

\* The two numbers of the header `# Track Metadata (<v> of <t> tracks)`.
HeaderValidCount(text) ==
    LET line == Line(text, 1)
        of == CHOOSE p \in 1..Len(line) : line[p] = " of "
    IN  ParseNum(SubSeq(line, 3, of - 1))

HeaderTotal(text) ==
    LET line == Line(text, 1)
        of == CHOOSE p \in 1..Len(line) : line[p] = " of "
    IN  ParseNum(SubSeq(line, of + 1, Len(line) - 1))

\* The positions of the blocks that open with `## ` and with `[Invalid ID]: `.
FoundBlocks(text) ==
    {k \in 1..Len(Blocks(text)) : Blocks(text)[k][1] = "## "}

InvalidBlocks(text) ==
    {k \in 1..Len(Blocks(text)) : Blocks(text)[k][1] = "[Invalid ID]: "}

\* The number a listing line opens with, before its `. `.
LineNumber(line) ==
    LET dot == CHOOSE p \in 1..Len(line) :
                   line[p] = ". " /\ \A q \in 1..(p - 1) : line[q] # ". "
    IN  ParseNum(SubSeq(line, 1, dot - 1))

\* The remote returned an array with one slot per identifier, each slot a
\* track or an absent (falsy) value.
PerSlotResult ==
    /\ result.kind = "array"
    /\ Len(result.items) = Len(request.args.trackIds)
    /\ \A i \in 1..Len(result.items) : IsTrack(result.items[i]) \/ Falsy(result.items[i])

\* Slot i holds the track of the identifier at input position i.
Resolves(i) ==
    /\ IsTrack(result.items[i])
    /\ result.items[i].id = request.args.trackIds[i]

(***************************************************************************)
(* Properties.                                                             *)
(***************************************************************************)
\* C1: when get_tracks is called with 1..50 identifiers and the remote returns
\* one slot per identifier, the response has exactly one block per slot, in
\* input order: block i is headed `## i.` (i the input position, not
\* renumbered) when slot i is a track, and is the line
\* `[Invalid ID]: <trackIds[i]> - Track not found`, without a numbering
\* marker, when slot i is absent.
C1_OneBlockPerSlotInOrder ==
    (Returned("get_tracks") /\ Len(request.args.trackIds) \in 1..MaxTrackIds
        /\ PerSlotResult)
    => /\ IsTextResponse
       /\ LET ids == request.args.trackIds
              blocks == Blocks(ResponseText)
          IN  /\ Len(blocks) = Len(ids)
              /\ \A i \in 1..Len(ids) :
                    IF IsTrack(result.items[i])
                    THEN /\ StartsWith(blocks[i], FoundMarker(i))
                         /\ ~Includes(blocks[i], <<"[Invalid ID]: ">>)
                    ELSE /\ blocks[i] = InvalidLine(ids[i])
                         /\ \A k \in 1..Len(ids) : ~Includes(blocks[i], FoundMarker(k))

\* C1 witness: the first slot is absent and the second is found, so the found
\* block keeps the number 2.
C1_Witness ==
    /\ Returned("get_tracks")
    /\ PerSlotResult
    /\ Len(request.args.trackIds) = 2
    /\ Falsy(result.items[1])
    /\ IsTrack(result.items[2])
    /\ StartsWith(Blocks(ResponseText)[2], FoundMarker(2))

\* C2 as stated: a batch rendering has as many per-slot outcomes as there are
\* input identifiers, whatever sequence the remote returned, and an accepted
\* non-empty call yields no outcome list only when the remote call raised.
C2_Original ==
    (Returned("get_tracks") /\ Len(request.args.trackIds) > 0)
    => /\ IsTextResponse
       /\ IF IsBatchRendering(ResponseText)
          THEN Len(Blocks(ResponseText)) = Len(request.args.trackIds)
          ELSE result.kind = "raise"

\* C2 amended: when the remote returns a non-empty sequence with one slot per
\* identifier, each a track or absent, the response is a batch rendering with
\* as many per-slot outcomes as input identifiers; every batch rendering has
\* one outcome per slot of the returned sequence; and no outcome list is
\* rendered when the remote call raises, returns no sequence or an empty one,
\* or returns a slot that is not shaped like a track.
C2_OutcomesMatchInputs ==
    (Returned("get_tracks") /\ Len(request.args.trackIds) > 0)
    => /\ IsTextResponse
       /\ PerSlotResult
            => /\ IsBatchRendering(ResponseText)
               /\ Len(Blocks(ResponseText)) = Len(request.args.trackIds)
       /\ IsBatchRendering(ResponseText)
            => /\ result.kind = "array"
               /\ Len(Blocks(ResponseText)) = Len(result.items)
       /\ ~IsBatchRendering(ResponseText)
            <=> \/ result.kind = "raise"
                \/ Falsy(result)
                \/ /\ result.kind = "array"
                   /\ \/ Len(result.items) = 0
                      \/ \E i \in 1..Len(result.items) :
                            result.items[i].kind = "malformed"

\* C2 witness: a batch rendering of two slots, both absent.
C2_Witness ==
    /\ Returned("get_tracks")
    /\ PerSlotResult
    /\ Len(request.args.trackIds) = 2
    /\ \A i \in 1..2 : Falsy(result.items[i])
    /\ IsBatchRendering(ResponseText)
    /\ Len(Blocks(ResponseText)) = 2

C4_ExactlyOneMarkerPerPosition ==
    (Returned("get_tracks") /\ Len(request.args.trackIds) \in 1..MaxTrackIds
        /\ PerSlotResult
        /\ \A i \in 1..Len(request.args.trackIds) :
              Resolves(i) \/ Falsy(result.items[i]))
    => /\ IsTextResponse
       /\ LET ids == request.args.trackIds
              blocks == Blocks(ResponseText)
              found(i) == \E k \in 1..Len(ids) : StartsWith(blocks[i], FoundMarker(k))
              invalid(i) == StartsWith(blocks[i], InvalidMarker(ids[i]))
          IN  /\ Len(blocks) = Len(ids)
              /\ \A i \in 1..Len(ids) :
                    /\ Includes(ResponseText, ids[i])
                    /\ found(i) # invalid(i)
                    /\ found(i) <=> Resolves(i)

\* C4 witness: "a" resolves and "ab" does not.
C4_Witness ==
    /\ Returned("get_tracks")
    /\ request.args.trackIds = <<(<<"a">>), (<<"a", "b">>)>>
    /\ PerSlotResult
    /\ Resolves(1)
    /\ Falsy(result.items[2])
    /\ Includes(ResponseText, InvalidMarker(<<"a", "b">>))

\* C5: for every accepted call of get_track or get_tracks and every behaviour
\* of the remote call, the handler does not raise: it returns a content list
\* of exactly one element, of type text.
C5_AlwaysOneTextElement ==
    (pc = "done" /\ response.kind # "invalid_params")
    => /\ response.kind = "content"
       /\ Len(response.content) = 1
       /\ response.content[1].type = "text"
       /\ Len(response.content[1].text) > 0

\* C5 witness: the remote handed back a value that is not shaped like a track.
C5_Witness ==
    /\ Returned("get_track")
    /\ result.kind = "malformed"
    /\ IsTextResponse
    /\ StartsWith(ResponseText, ErrorPrefix)

\* C6: for a trackId that does not resolve (the remote returns no track, a
\* value that is not a track, or raises), get_track does not raise and returns
\* a text of more than 10 characters that contains `not found` or `Error`.
C6_UnresolvedIsDescribed ==
    (Returned("get_track") /\ ~IsTrack(result))
    => /\ IsTextResponse
       /\ CharLen(ResponseText) > MinDescriptiveLength
       /\ \/ Includes(ResponseText, <<"not found">>)
          \/ Includes(ResponseText, <<"Error">>)

\* C6 witness: the empty string, for which the remote has no track.
C6_Witness ==
    /\ Returned("get_track")
    /\ request.args.trackId = <<>>
    /\ result = NullValue
    /\ Includes(ResponseText, <<"not found">>)

\* C7: the get_tracks schema accepts a list of strings iff its length is in
\* 0..50: a list of 50 is accepted, a list of 51 is rejected with a `too_big`
\* issue.
C7_SchemaAcceptsUpToFifty ==
    (request.tool = "get_tracks")
    => LET n == Len(request.args.trackIds)
           parsed == TrackIdsSchema(request.args.trackIds)
       IN  /\ parsed.success <=> n \in 0..50
           /\ n = 50 => parsed.success
           /\ n = 51 => ~parsed.success
           /\ ~parsed.success => /\ Len(parsed.issues) > 0
                                 /\ parsed.issues[1].code = "too_big"
           /\ response.kind = "invalid_params" => ~parsed.success

\* C7 witness: a list of 51 identifiers has been rejected.
C7_Witness ==
    /\ request.tool = "get_tracks"
    /\ Len(request.args.trackIds) = 51
    /\ response.kind = "invalid_params"
    /\ response.issues[1].code = "too_big"

\* C8 as stated: a request with more than 50 identifiers never reaches the
\* remote service and is answered with a structured validation failure of
\* kind `batch_too_large`, not with a text response.
C8_Original ==
    (request.tool = "get_tracks" /\ Len(request.args.trackIds) > 50)
    => /\ calls = <<>>
       /\ pc \notin {"handler", "await"}
       /\ pc = "done" => /\ response.kind = "invalid_params"
                         /\ response.issues[1].code = "batch_too_large"

\* C8 amended: a request with more than 50 identifiers never reaches the
\* remote service: it is rejected before the handler runs with a structured
\* validation failure whose issue code is `too_big`, which is not a text
\* response and so differs from `Error retrieving track metadata: ...`.
C8_TooLargeNeverReachesRemote ==
    (request.tool = "get_tracks" /\ Len(request.args.trackIds) > 50)
    => /\ calls = <<>>
       /\ pc \notin {"handler", "await"}
       /\ result = Pending
       /\ pc = "done" => /\ response.kind = "invalid_params"
                         /\ response.kind # "content"
                         /\ response.issues[1].code = "too_big"

\* C8 witness: a request of 51 identifiers is over without a remote call.
C8_Witness ==
    /\ pc = "done"
    /\ request.tool = "get_tracks"
    /\ Len(request.args.trackIds) = 51
    /\ calls = <<>>
    /\ response.kind = "invalid_params"

\* C9: get_tracks with an empty list returns the text `No track IDs provided`
\* (which contains `no track` when lower-cased) and makes no remote call.
C9_EmptyListShortCircuits ==
    (request.tool = "get_tracks" /\ Len(request.args.trackIds) = 0)
    => /\ calls = <<>>
       /\ pc # "await"
       /\ pc = "done"
            => /\ IsTextResponse
               /\ ResponseText = <<"No track", " IDs provided">>
               /\ Includes(ToLowerCase(ResponseText), <<"no track">>)

\* C9 witness: the empty list has been answered.
C9_Witness ==
    /\ Returned("get_tracks")
    /\ request.args.trackIds = <<>>
    /\ IsTextResponse
    /\ calls = <<>>

\* C10: when the remote has no track for the trackId of get_track, the text is
\* exactly `Track with ID "<trackId>" not found`, with the input string
\* unchanged, and does not carry the `Error retrieving track metadata: `
\* prefix.
C10_NotFoundTemplate ==
    (Returned("get_track") /\ Falsy(result))
    => /\ IsTextResponse
       /\ ResponseText
            = <<"Track with ID \"">> \o request.args.trackId \o <<"\" ", "not found">>
       /\ ~StartsWith(ResponseText, ErrorPrefix)

\* C10 witness: "ab" is looked up and the remote returns null.
C10_Witness ==
    /\ Returned("get_track")
    /\ request.args.trackId = <<"a", "b">>
    /\ result = NullValue
    /\ IsTextResponse

\* C11: when the remote call of get_track raises, the failure is caught and
\* the text is `Error retrieving track metadata: ` followed by the error's
\* message for an Error and by the string form of any other thrown value.
C11_SingleErrorBlock ==
    (Returned("get_track") /\ result.kind = "raise")
    => /\ response.kind # "thrown"
       /\ IsTextResponse
       /\ ResponseText
            = <<"Error", " retrieving track metadata: ">>
                \o (IF result.error.isError
                    THEN result.error.message ELSE result.error.value)

\* C11 witness: the remote call rejected with an Error.
C11_Witness ==
    /\ Returned("get_track")
    /\ result.kind = "raise"
    /\ result.error.isError
    /\ StartsWith(ResponseText, ErrorPrefix)

\* C12: when the remote call of get_tracks raises, the whole response is the
\* error block `Error retrieving track metadata: <message>`, without batch
\* header, `## k.` block or `[Invalid ID]` line.
C12_BatchErrorBlockOnly ==
    (Returned("get_tracks") /\ result.kind = "raise")
    => /\ IsTextResponse
       /\ ResponseText
            = <<"Error", " retrieving track metadata: ">>
                \o (IF result.error.isError
                    THEN result.error.message ELSE result.error.value)
       /\ ~IsBatchRendering(ResponseText)
       /\ ~Includes(ResponseText, <<"# Track Metadata">>)
       /\ ~Includes(ResponseText, <<"## ">>)
       /\ ~Includes(ResponseText, <<"[Invalid ID]: ">>)

\* C12 witness: two identifiers were asked for and the remote call rejected.
C12_Witness ==
    /\ Returned("get_tracks")
    /\ Len(request.args.trackIds) = 2
    /\ result.kind = "raise"
    /\ StartsWith(ResponseText, ErrorPrefix)

\* C13: when get_tracks is called with a non-empty list and the remote returns
\* no sequence or an empty one, the text is `No tracks found for the provided
\* IDs`: neither a batch rendering nor an error block.
C13_NoTracksFound ==
    (Returned("get_tracks") /\ Len(request.args.trackIds) > 0
        /\ \/ result.kind = "null"
           \/ result.kind = "array" /\ Len(result.items) = 0)
    => /\ IsTextResponse
       /\ ResponseText = <<"No track", "s found for the provided IDs">>
       /\ ~IsBatchRendering(ResponseText)
       /\ ~StartsWith(ResponseText, ErrorPrefix)

\* C13 witness: the remote returned an empty array for one identifier.
C13_Witness ==
    /\ Returned("get_tracks")
    /\ Len(request.args.trackIds) = 1
    /\ result.kind = "array"
    /\ Len(result.items) = 0
    /\ IsTextResponse

\* C14: a get_tracks invocation with a non-empty list of at most 50
\* identifiers makes exactly one remote call, with the full input list in
\* input order; the batch is never split into per-item calls.
C14_OneCallWithFullList ==
    (request.tool = "get_tracks" /\ Len(request.args.trackIds) \in 1..50)
    => /\ Len(calls) <= 1
       /\ pc \in {"await", "done"}
            => calls = <<[op |-> "tracks.get", ids |-> request.args.trackIds]>>

\* C14 witness: the list <<"ab", "a">> was answered after one call carrying it.
C14_Witness ==
    /\ Returned("get_tracks")
    /\ request.args.trackIds = <<(<<"a", "b">>), (<<"a">>)>>
    /\ Len(calls) = 1
    /\ calls[1].ids = <<(<<"a", "b">>), (<<"a">>)>>

\* C15: the first line of every batch rendering is
\* `# Track Metadata (<validCount> of <total> tracks)`, validCount being the
\* number of non-null slots of the returned sequence and total the number of
\* input identifiers.
C15_HeaderCounts ==
    (Returned("get_tracks") /\ IsTextResponse /\ IsBatchRendering(ResponseText))
    => /\ result.kind = "array"
       /\ LET nonNull == {i \in 1..Len(result.items) : result.items[i] # NullValue}
          IN  Line(ResponseText, 1)
                = <<"# Track Metadata", " (">> \o Num(Cardinality(nonNull))
                    \o <<" of ">> \o Num(Len(request.args.trackIds))
                    \o <<" tracks)">>

\* C15 witness: two slots, one of them null: the header reads `1 of 2`.
C15_Witness ==
    /\ Returned("get_tracks")
    /\ PerSlotResult
    /\ Len(request.args.trackIds) = 2
    /\ result.items[1] = NullValue
    /\ IsTrack(result.items[2])
    /\ Line(ResponseText, 1)
         = <<"# Track Metadata", " (", "1", " of ", "2", " tracks)">>

\* C16: for every record returned to get_track the found rendering is the
\* heading `# Track Metadata`, a blank line, then exactly the ten labeled lines
\* Track, Artists, Album, Duration, Popularity, Explicit, ISRC, Preview,
\* Spotify URL, ID in that order, each on its own line; the Artists value is
\* the artist names joined by ", " in the record's order.
C16_FoundRenderingLayout ==
    (Returned("get_track") /\ IsTrack(result))
    => /\ IsTextResponse
       /\ LineCount(ResponseText) = 12
       /\ Line(ResponseText, 1) = <<"# Track Metadata">>
       /\ Line(ResponseText, 2) = <<>>
       /\ \A k \in 1..10 :
            /\ Len(Line(ResponseText, k + 2)) >= 1
            /\ Line(ResponseText, k + 2)[1] = FieldLabels[k]
            /\ Range(FieldValue(ResponseText, k)) \cap Range(FieldLabels) = {}
       /\ FieldValue(ResponseText, 2)
            = Join([i \in 1..Len(result.artists) |-> result.artists[i].name], <<", ">>)

\* C16 witness: a record with two artists was rendered.
C16_Witness ==
    /\ Returned("get_track")
    /\ IsTrack(result)
    /\ Len(result.artists) = 2
    /\ Line(ResponseText, 4) = <<"**Artists**: ", "The Killers", ", ", "Brandon Flowers">>

\* C17: for an identifier that resolves, the labeled values of the found
\* rendering are well formed: Popularity is an integer in 0..100 followed by
\* `/100`, Duration is digits, a colon and two digits, Explicit is `Yes` or
\* `No`, and the text contains the requested identifier.
C17_FoundValuesWellFormed ==
    (Returned("get_track") /\ IsTrack(result) /\ result.id = request.args.trackId)
    => /\ IsTextResponse
       /\ LET popularity == FieldValue(ResponseText, 5)
              digits == SubSeq(popularity, 1, Len(popularity) - 1)
          IN  /\ Len(popularity) >= 2
              /\ popularity[Len(popularity)] = "/100"
              /\ IsDigits(digits)
              /\ ParseNum(digits) \in 0..100
       /\ IsDurationForm(FieldValue(ResponseText, 4))
       /\ FieldValue(ResponseText, 6) \in {<<"Yes">>, <<"No">>}
       /\ Includes(ResponseText, request.args.trackId)
       /\ FieldValue(ResponseText, 10) = request.args.trackId

\* C17 witness: the requested record carries no popularity and is rendered
\* with `0/100`, duration `0:59` and `Yes`.
C17_Witness ==
    /\ Returned("get_track")
    /\ request.args.trackId = <<"a", "b">>
    /\ IsTrack(result)
    /\ result.id = request.args.trackId
    /\ result.popularity = None
    /\ FieldValue(ResponseText, 5) = <<"0", "/100">>
    /\ FieldValue(ResponseText, 4) = <<"0", ":", "5", "9">>
    /\ FieldValue(ResponseText, 6) = <<"Yes">>

\* C18: for every non-negative integer durationMs the rendered duration is
\* `<m>:<ss>`: with total = durationMs div 1000, m = total div 60 is written
\* without padding and ss = total mod 60 with two digits, so ss is in 00..59;
\* 225000 renders as `3:45`.
C18_DurationMinutesSeconds ==
    (pc = "done" /\ request.tool = "formatDuration")
    => LET ms == request.args.durationMs
           total == ms \div 1000
           text == response.value
           m == SubSeq(text, 1, Len(text) - 3)
           ss == SubSeq(text, Len(text) - 1, Len(text))
       IN  /\ IsDurationForm(text)
           /\ ParseNum(m) = total \div 60
           /\ Len(m) > 1 => m[1] # "0"
           /\ ParseNum(ss) = total % 60
           /\ ParseNum(ss) \in 0..59
           /\ ms = 225000 => text = <<"3", ":", "4", "5">>

\* C18 witness: 225000 ms was rendered as `3:45`.
C18_Witness ==
    /\ pc = "done"
    /\ request.tool = "formatDuration"
    /\ request.args.durationMs = 225000
    /\ response.value = <<"3", ":", "4", "5">>

C20_AbsentSlotsStayPerSlot ==
    (Returned("get_tracks") /\ PerSlotResult /\ Len(request.args.trackIds) >= 1)
    => /\ IsTextResponse
       /\ IsBatchRendering(ResponseText)
       /\ ~StartsWith(ResponseText, ErrorPrefix)
       /\ ResponseText # NoTracksFoundText
       /\ Len(Blocks(ResponseText)) = Len(request.args.trackIds)
       /\ \A i \in 1..Len(request.args.trackIds) :
            Falsy(result.items[i])
            => Blocks(ResponseText)[i] = InvalidLine(request.args.trackIds[i])
       /\ (\A i \in 1..Len(result.items) : result.items[i] = NullValue)
            => Line(ResponseText, 1)
                 = <<"# Track Metadata", " (", "0", " of ">>
                     \o Num(Len(request.args.trackIds)) \o <<" tracks)">>

\* C20 witness: both slots of a two-identifier batch are null and the answer
\* is the batch rendering with header `0 of 2`.
C20_Witness ==
    /\ Returned("get_tracks")
    /\ PerSlotResult
    /\ Len(request.args.trackIds) = 2
    /\ \A i \in 1..2 : result.items[i] = NullValue
    /\ Line(ResponseText, 1) = <<"# Track Metadata", " (", "0", " of ", "2", " tracks)">>
    /\ Len(Blocks(ResponseText)) = 2

\* C21: get_track rejects nothing before the remote call: for every string
\* trackId, the empty one included, the remote single-item resolution is
\* invoked exactly once with that same string, and an empty string whose
\* lookup yields no record is rendered as not found.
C21_EveryStringIsForwarded ==
    request.tool = "get_track"
    => /\ pc # "idle"
       /\ pc = "handler" => calls = <<>>
       /\ pc \in {"await", "done"}
            => /\ Len(calls) = 1
               /\ calls[1].op = "tracks.get"
               /\ calls[1].id = request.args.trackId
       /\ (pc = "done" /\ request.args.trackId = <<>> /\ Falsy(result))
            => /\ IsTextResponse
               /\ ResponseText = <<"Track with ID \"", "\" ", "not found">>

\* C21 witness: the empty string was sent to the remote, which had no record.
C21_Witness ==
    /\ Returned("get_track")
    /\ request.args.trackId = <<>>
    /\ calls = <<[op |-> "tracks.get", id |-> <<>>]>>
    /\ result = UndefinedValue
    /\ ResponseText = <<"Track with ID \"", "\" ", "not found">>

\* C22: an invocation of get_track or get_tracks makes at most one remote
\* call, also when that call raises: the failure ends the invocation with its
\* response and is not followed by another call.
C22_FailureIsTerminal ==
    /\ Len(calls) <= 1
    /\ (pc = "done" /\ result # Pending /\ result.kind = "raise")
         => /\ Len(calls) = 1
            /\ IsTextResponse
            /\ StartsWith(ResponseText, ErrorPrefix)
    /\ (pc = "await") => (Len(calls) = 1 /\ result = Pending)

\* C22 witness: the remote call of get_tracks raised and the invocation ended
\* with its single call.
C22_Witness ==
    /\ Returned("get_tracks")
    /\ result.kind = "raise"
    /\ Len(calls) = 1
    /\ StartsWith(ResponseText, ErrorPrefix)

\* C23: invocations of get_track and get_tracks share no mutable state: in
\* every interleaving of concurrent invocations the response of an invocation
\* depends only on its own arguments and its own remote result (two
\* invocations with equal arguments and equal results have equal responses),
\* and a failed call of one invocation does not change the response of
\* another: a get_tracks call whose own result is an array is answered with
\* the batch rendering and a get_track call whose own result is a record with
\* the found rendering, whatever the other invocations met.
C23_InvocationsAreIsolated ==
    \A i \in Invocations :
        pc[i] = "done"
        => /\ \A j \in Invocations :
                (pc[j] = "done" /\ request[j] = request[i] /\ result[j] = result[i])
                => response[j] = response[i]
           /\ (request[i].tool = "get_tracks" /\ result[i] # Pending
                    /\ result[i].kind = "array")
                => /\ IsBatchRendering(response[i].content[1].text)
                   /\ ~StartsWith(response[i].content[1].text, ErrorPrefix)
           /\ (request[i].tool = "get_track" /\ IsTrack(result[i]))
                => /\ StartsWith(response[i].content[1].text, <<"# Track Metadata", LF>>)
                   /\ Includes(response[i].content[1].text,
                               <<"**ID**: ">> \o request[i].args.trackId)
           /\ (result[i] # Pending /\ result[i].kind = "raise")
                => response[i].content[1].text = ErrorPrefix \o result[i].error.message

\* C23 witness: a get_track call failed while a get_tracks call was pending,
\* and the get_tracks call was then answered with its batch rendering.
C23_Witness ==
    /\ pc = [i \in Invocations |-> "done"]
    /\ request[1].tool = "get_track"
    /\ result[1].kind = "raise"
    /\ request[2].tool = "get_tracks"
    /\ calls[1] = ManyCall(request[2].args.trackIds)
    /\ result[2].kind = "array"
    /\ IsBatchRendering(response[2].content[1].text)
    /\ StartsWith(response[1].content[1].text, ErrorPrefix)

\* C24: the batch response text determines the per-slot outcomes: for a fixed
\* input list, two outcome sequences that differ in which positions are found
\* or absent, or in the identifier a slot answers for, never render to the
\* same text.
C24_TextDeterminesOutcomes ==
    pc = "done"
    => (OutcomesOf(result[1].items, request.args.trackIds)
          # OutcomesOf(result[2].items, request.args.trackIds)
        => response[1].content[1].text # response[2].content[1].text)

\* C25: in the found rendering of get_track the ISRC line shows the record's
\* isrc when it is present and `N/A` when it is absent, the Preview line shows
\* the record's preview URL when it is present and `Not available` when it is
\* absent, and the Explicit line shows `Yes` exactly when the record's
\* explicit flag is true and `No` otherwise.  A value that is missing or the
\* empty string is absent.
C25_OptionalFields ==
    (Returned("get_track") /\ IsTrack(result))
    => LET isrcAbsent == result.isrc = None \/ Len(result.isrc[1]) = 0
           previewAbsent == result.preview_url = None \/ Len(result.preview_url[1]) = 0
       IN  /\ FieldValue(ResponseText, 7)
                = (IF isrcAbsent THEN <<"N/A">> ELSE result.isrc[1])
           /\ FieldValue(ResponseText, 8)
                = (IF previewAbsent THEN <<"Not available">> ELSE result.preview_url[1])
           /\ (FieldValue(ResponseText, 6) = <<"Yes">>) <=> result.explicit
           /\ (FieldValue(ResponseText, 6) = <<"No">>) <=> ~result.explicit

\* C25 witness: an explicit record with a preview URL and no isrc.
C25_Witness ==
    /\ Returned("get_track")
    /\ IsTrack(result)
    /\ result.explicit
    /\ result.isrc = None
    /\ result.preview_url # None
    /\ FieldValue(ResponseText, 6) = <<"Yes">>
    /\ FieldValue(ResponseText, 7) = <<"N/A">>
    /\ FieldValue(ResponseText, 8) = result.preview_url[1]

\* C26: in every batch rendering the header agrees with the body: validCount
\* is the number of `## k.` blocks, total minus validCount is the number of
\* `[Invalid ID]` lines, and 0 <= validCount <= total, for every sequence of
\* one slot per identifier the remote may return, slots holding a falsy value
\* other than null included.
C26_HeaderAgreesWithBody ==
    (Returned("get_tracks") /\ PerSlotResult /\ Len(request.args.trackIds) >= 1)
    => /\ IsBatchRendering(ResponseText)
       /\ HeaderValidCount(ResponseText) = Cardinality(FoundBlocks(ResponseText))
       /\ HeaderTotal(ResponseText) - HeaderValidCount(ResponseText)
            = Cardinality(InvalidBlocks(ResponseText))
       /\ HeaderValidCount(ResponseText) \in 0..HeaderTotal(ResponseText)

\* C27 as stated: every get_track invocation ends in exactly one of three
\* outcomes decided by the remote result: found rendering iff the remote
\* returned a record, not-found text iff it returned no record, error text
\* iff the remote call raised.
C27_Original ==
    Returned("get_track")
    => /\ IsTextResponse
       /\ StartsWith(ResponseText, <<"# Track Metadata">>) <=> IsTrack(result)
       /\ StartsWith(ResponseText, <<"Track with ID \"">>) <=> Falsy(result)
       /\ StartsWith(ResponseText, ErrorPrefix) <=> result.kind = "raise"

\* C27 (amended): every get_track invocation ends in exactly one of three
\* outcomes: the found rendering iff the remote returned a track record, the
\* not-found text iff it returned a falsy value, and the error text iff the
\* remote call raised or the returned value is not falsy and cannot be
\* rendered as a track (reading it faults inside the try block).
C27_ThreeOutcomes ==
    Returned("get_track")
    => /\ IsTextResponse
       /\ StartsWith(ResponseText, <<"# Track Metadata">>) <=> IsTrack(result)
       /\ StartsWith(ResponseText, <<"Track with ID \"">>) <=> Falsy(result)
       /\ StartsWith(ResponseText, ErrorPrefix)
            <=> (result.kind = "raise" \/ result = MalformedValue)
       /\ Cardinality({p \in {<<"# Track Metadata">>, <<"Track with ID \"">>, ErrorPrefix} :
                          StartsWith(ResponseText, p)}) = 1

\* C27 witness: the call resolved to a value without `artists`; the answer is
\* the error text although the call did not raise.
C27_Witness ==
    /\ Returned("get_track")
    /\ result = MalformedValue
    /\ ResponseText = ErrorPrefix \o TypeError.message

\* C28: for the same track record, the found block of get_tracks and the
\* found rendering of get_track show identical values on the lines they share
\* (Artists, Album, Duration, Popularity, ID), also when the record carries no
\* popularity value.
C28_SharedLinesAgree ==
    \A i \in Invocations : \A j \in Invocations :
        (/\ pc[i] = "done" /\ request[i].tool = "get_track" /\ IsTrack(result[i])
         /\ pc[j] = "done" /\ request[j].tool = "get_tracks"
         /\ result[j].kind = "array")
        => \A k \in 1..Len(result[j].items) :
              result[j].items[k] = result[i]
              => LET single == response[i].content[1].text
                     block == Blocks(response[j].content[1].text)[k]
                 IN  /\ Line(block, 2) = Line(single, 4)
                     /\ Line(block, 3) = Line(single, 5)
                     /\ Line(block, 4) = Line(single, 6)
                     /\ Line(block, 5) = Line(single, 7)
                     /\ Line(block, 6) = Line(single, 12)

\* C29: every tool exported in readTools follows the failure pattern of
\* get_track: when its remote call raises, the handler catches the failure and
\* returns a text response; the exception does not reach the host.
C29_EveryToolCatches ==
    (pc = "done" /\ result.kind = "raise")
    => /\ response.kind # "thrown"
       /\ IsTextResponse

\* C30: in the listings getPlaylistTracks and getUsersSavedTracks the item at
\* index i of a page requested with offset o is numbered o + i + 1 whatever
\* its kind (track, removed track, unknown item): the numbers of a page are
\* consecutive and match the range `o+1 - o+len` of the header.
C30_ListingNumbers ==
    (pc = "done" /\ Len(result.page.items) > 0)
    => LET o == OffsetOf(request.args)
           n == Len(result.page.items)
       IN  /\ LineCount(ResponseText) = n + 2
           /\ SubSeq(Line(ResponseText, 1), 2, Len(Line(ResponseText, 1)))
                = <<"(">> \o Num(o + 1) \o <<"-">> \o Num(o + n)
                    \o <<" of ">> \o Num(result.page.total) \o <<")">>
           /\ \A i \in 0..(n - 1) :
                 /\ IsDigits(<<Line(ResponseText, i + 3)[1]>>)
                 /\ LineNumber(Line(ResponseText, i + 3)) = o + i + 1

====
